---- MODULE Spec2Model ----
(***************************************************************************)
(* Model of timeseriesloader/timeseries_formatter.py:                      *)
(* TimeSeriesFormatterPrimitive, its column classifier, column discovery,  *)
(* base path resolver and the produce method that joins every row of the   *)
(* main resource with the rows of the series file it references.           *)
(***************************************************************************)
EXTENDS Integers, Sequences, FiniteSets

VARIABLES
    metadata,       \* inputs.metadata: selector <<res_id, column_index>> -> column metadata
    hp_main,        \* hyperparams['main_resource_index']
    hp_file,        \* hyperparams['file_col_index']
    table,          \* inputs[main_resource_index]: the rows iterrows() yields
    pc,             \* position inside produce
    file_index,     \* local file_index of produce
    base_path,      \* local base_path of produce
    row_i,          \* number of rows the for loop of produce has consumed
    output_data,    \* local output_data of produce
    loads,          \* the pd.read_csv calls made so far, in call order
    result,         \* how produce ended: returned Dataset or raised exception
    call            \* last direct call of a classmethod and what it gave

vars == <<metadata, hp_main, hp_file, table, pc, file_index, base_path,
          row_i, output_data, loads, result, call>>

----------------------------------------------------------------------------
(* Bounds of the model *)

\* Largest number of rows of the main resource.
MaxRows == 3

\* Largest number of data rows of one series file.
MaxCsvRows == 2

----------------------------------------------------------------------------
(* Python values *)

\* Python's None where a string may stand instead (main_resource_index).
None == "None"

\* An Optional[int]: None is the empty tuple, the integer i the tuple <<i>>.
NoneInt == <<>>
SomeInt(i) == <<i>>

\* A call that returned v.
Return(v) == [kind |-> "return", value |-> v, exc |-> ""]

\* A call that raised exception e.
Raise(e) == [kind |-> "raise", value |-> <<>>, exc |-> e]

\* Strings that are paths are tuples of characters, so that os.path.join can
\* look at the first and the last character.
\* posixpath.join(a, b): an absolute b discards a; otherwise a separator is
\* added unless a is empty or already ends with one.
PathJoin(a, b) ==
    IF b # <<>> /\ b[1] = "/" THEN b
    ELSE IF a = <<>> \/ a[Len(a)] = "/" THEN a \o b
    ELSE a \o <<"/">> \o b

----------------------------------------------------------------------------
(* Column metadata: the frozendict DataMetadata.query returns.  keys is the *)
(* set of keys the dictionary holds; the field of a key that is not held   *)
(* carries a fixed filler that no operator reads.                          *)

\* A foreign_key value None.
NoneFK == [type |-> "None", resource_id |-> "", column_index |-> 0]

\* A foreign_key value pointing at column c of resource r.
ColumnFK(r, c) == [type |-> "COLUMN", resource_id |-> r, column_index |-> c]

\* An optional dictionary entry: held with value v, or not held.
Held(v) == [has |-> TRUE, v |-> v]
NotHeld(filler) == [has |-> FALSE, v |-> filler]

\* The dictionary with the five entries given as optional entries.
ColumnMetadata(st, fk, sem, med, uris) ==
    [keys |-> (IF st.has THEN {"structural_type"} ELSE {})
              \cup (IF fk.has THEN {"foreign_key"} ELSE {})
              \cup (IF sem.has THEN {"semantic_types"} ELSE {})
              \cup (IF med.has THEN {"media_types"} ELSE {})
              \cup (IF uris.has THEN {"location_base_uris"} ELSE {}),
     structural_type |-> st.v,
     foreign_key |-> fk.v,
     semantic_types |-> sem.v,
     media_types |-> med.v,
     location_base_uris |-> uris.v]

\* The empty dictionary: what query gives for a selector without metadata.
EmptyMetadata ==
    ColumnMetadata(NotHeld(""), NotHeld(NoneFK), NotHeld({}), NotHeld({}), NotHeld(<<>>))

\* inputs_metadata.query((res_id, ALL_ELEMENTS, column_index)).
query(inputs_metadata, res_id, column_index) ==
    IF <<res_id, column_index>> \in DOMAIN inputs_metadata
    THEN inputs_metadata[<<res_id, column_index>>]
    ELSE EmptyMetadata

\* Semantic type tags: FileName, Timeseries, Text, Attribute are the four of
\* _semantic_types; PrimaryKey is a tag outside that tuple.
_semantic_types == {"FileName", "Timeseries", "Text", "Attribute"}

\* Media type tags: text/csv is the one of _media_types.
_media_types == {"text/csv"}

----------------------------------------------------------------------------
(* Column Classifier *)

\* _is_csv_file_reference: is the column a csv resource.
_is_csv_file_reference(inputs_metadata, res_id, column_index) ==
    LET column_metadata == query(inputs_metadata, res_id, column_index) IN
    IF column_metadata.keys = {} THEN Return(FALSE)
    ELSE IF "structural_type" \notin column_metadata.keys THEN Raise("KeyError")
    ELSE IF column_metadata.structural_type # "str" THEN Return(FALSE)
    ELSE LET semantic_types ==
                 IF "semantic_types" \in column_metadata.keys
                 THEN column_metadata.semantic_types ELSE {}
             media_types ==
                 IF "media_types" \in column_metadata.keys
                 THEN column_metadata.media_types ELSE {}
         IN Return(semantic_types \cap _semantic_types # {}
                   /\ _media_types \subseteq media_types)

\* _is_csv_file_column: is the column a file pointer that points to a csv file.
_is_csv_file_column(inputs_metadata, res_id, column_index) ==
    LET column_metadata == query(inputs_metadata, res_id, column_index) IN
    IF column_metadata.keys = {} THEN Return(FALSE)
    ELSE IF "structural_type" \notin column_metadata.keys THEN Raise("KeyError")
    ELSE IF column_metadata.structural_type # "str" THEN Return(FALSE)
    ELSE IF "foreign_key" \notin column_metadata.keys THEN Raise("KeyError")
    ELSE IF column_metadata.foreign_key = NoneFK THEN Return(FALSE)
    ELSE _is_csv_file_reference(inputs_metadata,
                                column_metadata.foreign_key.resource_id,
                                column_metadata.foreign_key.column_index)

----------------------------------------------------------------------------
(* Column Discovery *)

\* The column indices of resource res_id, in ascending order.
Columns(inputs_metadata, res_id) ==
    {s[2] : s \in {t \in DOMAIN inputs_metadata : t[1] = res_id}}

\* The elements of a finite set of integers as an ascending sequence.
RECURSIVE Ascending(_)
Ascending(S) ==
    IF S = {} THEN <<>>
    ELSE LET m == CHOOSE x \in S : \A y \in S : x <= y
         IN <<m>> \o Ascending(S \ {m})

\* inputs_metadata.list_columns_with_semantic_types(types, at=(res_id,)): the
\* columns of the resource carrying at least one of the types, ascending.
list_columns_with_semantic_types(inputs_metadata, types, res_id) ==
    Ascending({c \in Columns(inputs_metadata, res_id) :
        LET cm == query(inputs_metadata, res_id, c) IN
        "semantic_types" \in cm.keys /\ cm.semantic_types \cap types # {}})

\* The for loop of _find_csv_file_column over indices, from position k on.
RECURSIVE FindFrom(_, _, _, _)
FindFrom(inputs_metadata, res_id, indices, k) ==
    IF k > Len(indices) THEN Return(NoneInt)
    ELSE LET r == _is_csv_file_column(inputs_metadata, res_id, indices[k]) IN
         IF r.kind = "raise" THEN r
         ELSE IF r.value THEN Return(SomeInt(indices[k]))
         ELSE FindFrom(inputs_metadata, res_id, indices, k + 1)

\* _find_csv_file_column(inputs_metadata, res_id).
_find_csv_file_column(inputs_metadata, res_id) ==
    FindFrom(inputs_metadata, res_id,
             list_columns_with_semantic_types(inputs_metadata, _semantic_types, res_id), 1)

----------------------------------------------------------------------------
(* Base Path Resolver *)

\* _get_base_path with a fault: the last base location is taken, not the first.
_get_base_path_last(inputs_metadata, res_id, column_index) ==
    LET column_metadata == query(inputs_metadata, res_id, column_index) IN
    IF "foreign_key" \notin column_metadata.keys THEN Raise("KeyError")
    ELSE IF column_metadata.foreign_key = NoneFK THEN Raise("TypeError")
    ELSE LET ref == query(inputs_metadata,
                          column_metadata.foreign_key.resource_id,
                          column_metadata.foreign_key.column_index) IN
         IF "location_base_uris" \notin ref.keys THEN Raise("KeyError")
         ELSE IF ref.location_base_uris = <<>> THEN Raise("IndexError")
         ELSE Return(ref.location_base_uris[Len(ref.location_base_uris)])

\* _get_base_path: the base uri from the referenced column.
_get_base_path(inputs_metadata, res_id, column_index) ==
    LET column_metadata == query(inputs_metadata, res_id, column_index) IN
    IF "foreign_key" \notin column_metadata.keys THEN Raise("KeyError")
    ELSE IF column_metadata.foreign_key = NoneFK THEN Raise("TypeError")
    ELSE LET ref == query(inputs_metadata,
                          column_metadata.foreign_key.resource_id,
                          column_metadata.foreign_key.column_index) IN
         IF "location_base_uris" \notin ref.keys THEN Raise("KeyError")
         ELSE IF ref.location_base_uris = <<>> THEN Raise("IndexError")
         ELSE Return(ref.location_base_uris[1])

----------------------------------------------------------------------------
(* Series Join Engine: the pieces of the for loop of produce *)

\* iterrows with a fault: the rows are yielded from the last to the first.
iterrows_backwards(main_resource, k) ==
    [pos |-> Len(main_resource) - 1 - k,
     idx |-> main_resource[Len(main_resource) - k].idx,
     fields |-> main_resource[Len(main_resource) - k].fields]

\* The row iterrows() yields at zero-based position k: pos is k, idx the index
\* label of the row, fields the values of its columns.
iterrows(main_resource, k) ==
    [pos |-> k, idx |-> main_resource[k + 1].idx, fields |-> main_resource[k + 1].fields]

\* [pd.concat([tRow, vRow]) for vIdx, vRow in timeseries_row.iterrows()] with
\* series_id = int(idx) appended to tRow: one long-form row per series row.
LongFormRows(tRow, timeseries_row) ==
    [v \in 1..Len(timeseries_row) |->
        [fields |-> tRow.fields, series_id |-> tRow.idx, value |-> timeseries_row[v]]]

\* LoopBody with a fault: a series file that cannot be read is skipped.
LoopBody_skip_failed(acc, tRow, read) ==
    IF read.kind = "raise"
    THEN [pc |-> "loop", output_data |-> acc, result |-> [kind |-> "none", value |-> <<>>, exc |-> ""]]
    ELSE [pc |-> "loop",
          output_data |-> acc \o LongFormRows(tRow, read.value),
          result |-> [kind |-> "none", value |-> <<>>, exc |-> ""]]

\* One pass of the loop body once pd.read_csv gave `read`: an exception of
\* read_csv leaves produce, and the local output_data with it; otherwise the
\* long-form rows of the series extend output_data.
LoopBody(acc, tRow, read) ==
    IF read.kind = "raise"
    THEN [pc |-> "done", output_data |-> <<>>, result |-> read]
    ELSE [pc |-> "loop",
          output_data |-> acc \o LongFormRows(tRow, read.value),
          result |-> [kind |-> "none", value |-> <<>>, exc |-> ""]]

----------------------------------------------------------------------------
(* Inputs *)

\* Resource "1" is the main resource (the default main_resource_index), with
\* columns 0 and 1; resource "0" holds the series files, with column 0.
MainSelectors == {<<"1", 0>>, <<"1", 1>>}
RefSelector == <<"0", 0>>

\* Base locations and file names, as tuples of characters.
Uri1 == <<"/", "d">>
Uri2 == <<"/", "e", "/">>
FileA == <<"a">>
FileB == <<"/", "b">>

\* Metadata of a main-resource column, for the classifier: textual or not,
\* without foreign_key entry, with foreign_key None, pointing at the referenced
\* column or at a column without metadata; tagged with a required semantic
\* type or not.
ClassifyMainMetadata ==
    {ColumnMetadata(st, fk, sem, NotHeld({}), NotHeld(<<>>)) :
        st \in {Held("str"), Held("int")},
        fk \in {NotHeld(NoneFK), Held(NoneFK), Held(ColumnFK("0", 0)), Held(ColumnFK("0", 1))},
        sem \in {Held({"FileName"}), Held({"PrimaryKey"})}}

\* Metadata of the referenced column, for the classifier.
ClassifyRefMetadata ==
    {ColumnMetadata(st, NotHeld(NoneFK), sem, med, NotHeld(<<>>)) :
        st \in {Held("str"), Held("int")},
        sem \in {NotHeld({}), Held({"Text"}), Held({"PrimaryKey"})},
        med \in {NotHeld({}), Held({"text/csv"}), Held({"image/png"}),
                 Held({"image/png", "text/csv"})}}

\* A plain text attribute column: textual, without foreign_key entry.
PlainTextColumn ==
    ColumnMetadata(Held("str"), NotHeld(NoneFK), Held({"Attribute"}), NotHeld({}), NotHeld(<<>>))

\* Metadata of a main-resource column, for produce: a plain text column, a
\* text column with foreign_key None, a text column and an integer column
\* pointing at the referenced column.
ProduceMainMetadata ==
    {PlainTextColumn,
     ColumnMetadata(Held("str"), Held(NoneFK), Held({"Attribute"}), NotHeld({}), NotHeld(<<>>)),
     ColumnMetadata(Held("str"), Held(ColumnFK("0", 0)), Held({"FileName"}), NotHeld({}), NotHeld(<<>>)),
     ColumnMetadata(Held("int"), Held(ColumnFK("0", 0)), Held({"Attribute"}), NotHeld({}), NotHeld(<<>>))}

\* Metadata of the referenced column, for produce.
ProduceRefMetadata ==
    {ColumnMetadata(Held("str"), NotHeld(NoneFK), sem, med, uris) :
        sem \in {Held({"FileName"}), Held({"PrimaryKey"})},
        med \in {Held({"text/csv"}), Held({"image/png"})},
        uris \in {NotHeld(<<>>), Held(<<>>), Held(<<Uri1>>), Held(<<Uri2, Uri1>>)}}

\* The metadata stores with main columns from M and referenced column from R.
MetadataStores(M, R) ==
    {[s \in MainSelectors \cup {RefSelector} |->
        IF s = <<"1", 0>> THEN m0 ELSE IF s = <<"1", 1>> THEN m1 ELSE r] :
        m0 \in M, m1 \in M, r \in R}

\* The metadata stores produce is handed: one main column is described by an
\* element of ProduceMainMetadata, the other is a plain text attribute column.
ProduceMetadataStores ==
    {[s \in MainSelectors \cup {RefSelector} |->
        IF s = <<"1", c>> THEN m ELSE IF s = RefSelector THEN r ELSE PlainTextColumn] :
        c \in {0, 1}, m \in ProduceMainMetadata, r \in ProduceRefMetadata}

\* The index labels a row may carry: the label of a first row of a default
\* index, and another one; two rows may carry the same label.
RowLabels == {0, 1}

\* The rows a main resource may hold: an index label and the two column values.
MainRows ==
    [idx : RowLabels, fields : {<<FileA, FileB>>, <<FileB, FileA>>}]

\* The main resources of at most MaxRows rows.
MainResources ==
    UNION {[1..n -> MainRows] : n \in 0..MaxRows}

\* What pd.read_csv may give for a path: the file is missing, it does not
\* parse, or it parses to n data rows, the k-th holding the value k.
ReadCsvOutcomes ==
    {Raise("FileNotFoundError"), Raise("ParserError")}
    \cup {Return([k \in 1..n |-> k]) : n \in 0..MaxCsvRows}

----------------------------------------------------------------------------
(* Initial states *)

NoResult == [kind |-> "none", value |-> <<>>, exc |-> ""]
NoCall == [fn |-> "", res_id |-> "", column_index |-> 0, result |-> NoResult]

\* The locals of produce before it runs.
InitLocals ==
    /\ table = <<>>
    /\ pc = "main_resource"
    /\ file_index = NoneInt
    /\ base_path = <<>>
    /\ row_i = 0
    /\ output_data = <<>>
    /\ loads = <<>>
    /\ result = NoResult
    /\ call = NoCall

\* A primitive constructed with its hyperparams, handed a dataset.
Init ==
    /\ metadata \in ProduceMetadataStores
    /\ hp_main \in {None, "1"}
    /\ hp_file \in {NoneInt, SomeInt(0), SomeInt(1)}
    /\ InitLocals

\* The classmethods called on a metadata store.
InitClassify ==
    /\ metadata \in MetadataStores(ClassifyMainMetadata, ClassifyRefMetadata)
    /\ hp_main = "1"
    /\ hp_file = NoneInt
    /\ InitLocals

----------------------------------------------------------------------------
(* produce *)

\* Lines 135-137: the main resource check.
CheckMainResource ==
    /\ pc = "main_resource"
    /\ IF hp_main = None
       THEN pc' = "done" /\ result' = Raise("InvalidArgumentValueError")
       ELSE pc' = "file_column" /\ result' = result
    /\ UNCHANGED <<metadata, hp_main, hp_file, table, file_index, base_path,
                   row_i, output_data, loads, call>>

\* Lines 139-146: the file column is checked when configured, discovered
\* otherwise.  Line 144 calls _find_csv_file_column(inputs.metadata) without
\* its res_id parameter, which Python answers with a TypeError.
ResolveFileColumn ==
    /\ pc = "file_column"
    /\ IF hp_file # NoneInt
       THEN LET r == _is_csv_file_column(metadata, hp_main, hp_file[1]) IN
            IF r.kind = "raise"
            THEN pc' = "done" /\ result' = r /\ file_index' = file_index
            ELSE IF ~r.value
            THEN /\ pc' = "done"
                 /\ result' = Raise("InvalidArgumentValueError")
                 /\ file_index' = file_index
            ELSE pc' = "base_path" /\ result' = result /\ file_index' = hp_file
       ELSE pc' = "done" /\ result' = Raise("TypeError") /\ file_index' = file_index
    /\ UNCHANGED <<metadata, hp_main, hp_file, table, base_path,
                   row_i, output_data, loads, call>>

\* Line 149: the base path.
ResolveBasePath ==
    /\ pc = "base_path"
    /\ LET r == _get_base_path(metadata, hp_main, file_index[1]) IN
       IF r.kind = "raise"
       THEN pc' = "done" /\ result' = r /\ base_path' = base_path
       ELSE pc' = "iterrows" /\ result' = result /\ base_path' = r.value
    /\ UNCHANGED <<metadata, hp_main, hp_file, table, file_index,
                   row_i, output_data, loads, call>>

\* Lines 150-152: output_data = [] and the rows of inputs[main_resource_index]
\* are read; this is the first time produce looks at the table.
BeginJoin ==
    /\ pc = "iterrows"
    /\ table' \in MainResources
    /\ output_data' = <<>>
    /\ row_i' = 0
    /\ pc' = "loop"
    /\ UNCHANGED <<metadata, hp_main, hp_file, file_index, base_path, loads, result, call>>

\* Lines 152-161: one pass of the for loop.
LoadRow ==
    /\ pc = "loop"
    /\ row_i < Len(table)
    /\ \E read \in ReadCsvOutcomes :
        LET tRow == iterrows(table, row_i)
            csv_path == PathJoin(base_path, tRow.fields[file_index[1] + 1])
            next == LoopBody(output_data, tRow, read)
        IN /\ loads' = Append(loads, [row |-> tRow.pos, path |-> csv_path, read |-> read])
           /\ pc' = next.pc
           /\ output_data' = next.output_data
           /\ result' = next.result
    /\ row_i' = row_i + 1
    /\ UNCHANGED <<metadata, hp_main, hp_file, table, file_index, base_path, call>>

\* Lines 164-171: the accumulated rows become the one resource of the Dataset
\* returned.  With no row accumulated, line 164 is
\* pd.DataFrame().append([], ignore_index=True): pandas before 1.0 reads
\* other[0] of the empty list and raises IndexError, pandas 1.0 to 1.5 gives
\* the empty frame; which one happens is the installation's choice.
Assemble ==
    /\ pc = "loop"
    /\ row_i = Len(table)
    /\ pc' = "done"
    /\ IF output_data = <<>>
       THEN result' \in {Return(<<>>), Raise("IndexError")}
       ELSE result' = Return(output_data)
    /\ UNCHANGED <<metadata, hp_main, hp_file, table, file_index, base_path,
                   row_i, output_data, loads, call>>

Next ==
    \/ CheckMainResource
    \/ ResolveFileColumn
    \/ ResolveBasePath
    \/ BeginJoin
    \/ LoadRow
    \/ Assemble

Spec == Init /\ [][Next]_vars

----------------------------------------------------------------------------
(* The classmethods called directly *)

Selectors == MainSelectors \cup {RefSelector, <<"0", 1>>}

CallIsCsvFileColumn ==
    /\ \E s \in Selectors :
        call' = [fn |-> "_is_csv_file_column", res_id |-> s[1], column_index |-> s[2],
                 result |-> _is_csv_file_column(metadata, s[1], s[2])]
    /\ UNCHANGED <<metadata, hp_main, hp_file, table, pc, file_index, base_path,
                   row_i, output_data, loads, result>>

CallIsCsvFileReference ==
    /\ \E s \in Selectors :
        call' = [fn |-> "_is_csv_file_reference", res_id |-> s[1], column_index |-> s[2],
                 result |-> _is_csv_file_reference(metadata, s[1], s[2])]
    /\ UNCHANGED <<metadata, hp_main, hp_file, table, pc, file_index, base_path,
                   row_i, output_data, loads, result>>

CallFindCsvFileColumn ==
    /\ \E res_id \in {"0", "1"} :
        call' = [fn |-> "_find_csv_file_column", res_id |-> res_id, column_index |-> 0,
                 result |-> _find_csv_file_column(metadata, res_id)]
    /\ UNCHANGED <<metadata, hp_main, hp_file, table, pc, file_index, base_path,
                   row_i, output_data, loads, result>>

NextClassify ==
    \/ CallIsCsvFileColumn
    \/ CallIsCsvFileReference
    \/ CallFindCsvFileColumn

SpecClassify == InitClassify /\ [][NextClassify]_vars

----------------------------------------------------------------------------
(* Vocabulary of the properties *)

\* The classifier as specified: the column is textual, has a foreign key, and
\* the foreign-key target is textual, carries one of the required semantic
\* types and carries the csv media type.
IsFileReferenceColumn(res_id, column_index) ==
    LET cm == query(metadata, res_id, column_index) IN
    /\ "structural_type" \in cm.keys
    /\ cm.structural_type = "str"
    /\ "foreign_key" \in cm.keys
    /\ cm.foreign_key.type = "COLUMN"
    /\ LET ref == query(metadata, cm.foreign_key.resource_id, cm.foreign_key.column_index) IN
       /\ "structural_type" \in ref.keys
       /\ ref.structural_type = "str"
       /\ "semantic_types" \in ref.keys
       /\ \E t \in {"FileName", "Timeseries", "Text", "Attribute"} : t \in ref.semantic_types
       /\ "media_types" \in ref.keys
       /\ "text/csv" \in ref.media_types

\* The columns of a resource tagged with a required semantic type.
Candidates(res_id) ==
    {c \in {0, 1} :
        LET cm == query(metadata, res_id, c) IN
        /\ "semantic_types" \in cm.keys
        /\ \E t \in {"FileName", "Timeseries", "Text", "Attribute"} : t \in cm.semantic_types}

\* The first candidate the specified classifier accepts, or no column.
FirstQualifying(res_id) ==
    LET Q == {c \in Candidates(res_id) : IsFileReferenceColumn(res_id, c)} IN
    IF Q = {} THEN NoneInt
    ELSE SomeInt(CHOOSE c \in Q : \A d \in Q : c <= d)

\* The failures produce documents: the configuration error and the errors of
\* opening or parsing a series file.
ConfigurationError == "InvalidArgumentValueError"
IOErrors == {"FileNotFoundError", "ParserError"}

Returned == pc = "done" /\ result.kind = "return"
Failed == pc = "done" /\ result.kind = "raise"

\* The number of rows the first n loads gave together.
RECURSIVE RowsLoaded(_)
RowsLoaded(n) ==
    IF n = 0 THEN 0
    ELSE RowsLoaded(n - 1)
         + (IF loads[n].read.kind = "return" THEN Len(loads[n].read.value) ELSE 0)

\* The series file of main-resource row i (one-based), as read.
Csv(i) == loads[i].read.value

\* The first base location declared on the foreign-key target of the file column.
FirstBaseUri ==
    LET fk == metadata[<<hp_main, file_index[1]>>].foreign_key IN
    metadata[<<fk.resource_id, fk.column_index>>].location_base_uris[1]

\* The values of the output rows carrying series_id s, in output order.
RECURSIVE BlockValues(_, _)
BlockValues(rows, s) ==
    IF rows = <<>> THEN <<>>
    ELSE (IF Head(rows).series_id = s THEN <<Head(rows).value>> ELSE <<>>)
         \o BlockValues(Tail(rows), s)

----------------------------------------------------------------------------
(* Properties *)

\* C1: with file_col_index unset, produce discovers the file column on the main
\* resource and builds the output from it, or raises the configuration error
\* when discovery finds none; the run never ends in any failure other than the
\* configuration error or an I/O error.
C1_DiscoveryEndsAsDocumented ==
    (pc = "done" /\ hp_main # None /\ hp_file = NoneInt) =>
        /\ result.kind = "raise" => result.exc \in {ConfigurationError} \cup IOErrors
        /\ FirstQualifying(hp_main) = NoneInt => result = Raise(ConfigurationError)
        /\ FirstQualifying(hp_main) # NoneInt => file_index = FirstQualifying(hp_main)

\* C2: an explicitly configured file_col_index naming a column that fails the
\* classifier ends produce in the configuration error, with no series file
\* loaded and no output.
C2_BadExplicitColumnIsConfigurationError ==
    (pc = "done" /\ hp_main # None /\ hp_file # NoneInt
        /\ ~IsFileReferenceColumn(hp_main, hp_file[1])) =>
        /\ result = Raise(ConfigurationError)
        /\ loads = <<>>

\* C3: _is_csv_file_column never raises and returns true exactly when the
\* specified classifier holds of the column.
C3_ClassifierIsTotalAndExact ==
    call.fn = "_is_csv_file_column" =>
        call.result = Return(IsFileReferenceColumn(call.res_id, call.column_index))

\* C4: _find_csv_file_column returns the first candidate column the classifier
\* accepts, and none when there is no such candidate.
C4_DiscoveryReturnsFirstQualifying ==
    call.fn = "_find_csv_file_column" =>
        call.result = Return(FirstQualifying(call.res_id))

\* The join went through every row of the main resource with every series
\* file read.
JoinCompleted ==
    /\ pc = "done"
    /\ file_index # NoneInt
    /\ _get_base_path(metadata, hp_main, file_index[1]).kind = "return"
    /\ Len(loads) = Len(table)
    /\ \A k \in 1..Len(loads) : loads[k].read.kind = "return"

\* C5: the output of a successful run has as many rows as the series files of
\* all main-resource rows have together; a series file without data rows adds
\* no row, and a main resource without rows yields the empty table.
C5_RowCountLaw ==
    /\ Returned =>
        /\ Len(loads) = Len(table)
        /\ Len(result.value) = RowsLoaded(Len(table))
    /\ JoinCompleted => Returned

\* C6: the output rows sharing a series_id are one contiguous block holding
\* the rows of the one source file in file order, and the blocks follow
\* main-resource row order.
C6_GroupingOrderLaw ==
    Returned =>
        /\ \A p, m, q \in 1..Len(result.value) :
            (p < m /\ m < q /\ result.value[p].series_id = result.value[q].series_id)
                => result.value[m].series_id = result.value[p].series_id
        /\ \A i \in 1..Len(table) :
            /\ \A k \in 1..Len(Csv(i)) :
                /\ result.value[RowsLoaded(i - 1) + k].fields = table[i].fields
                /\ result.value[RowsLoaded(i - 1) + k].value = Csv(i)[k]
            /\ Len(Csv(i)) > 0 =>
                BlockValues(result.value, result.value[RowsLoaded(i - 1) + 1].series_id) = Csv(i)

\* C7: every output row carries as series_id the zero-based position of the
\* main-resource row it comes from, whatever the index labels, with the fields
\* of that row and a value of that row's file.
C7_ProvenanceLaw ==
    Returned =>
        \A i \in 1..Len(table) : \A k \in 1..Len(Csv(i)) :
            /\ result.value[RowsLoaded(i - 1) + k].series_id = i - 1
            /\ result.value[RowsLoaded(i - 1) + k].fields = table[i].fields
            /\ result.value[RowsLoaded(i - 1) + k].value = Csv(i)[k]

\* C8: a series file that cannot be opened or parsed ends the run in that I/O
\* failure: it is the last load made, no Dataset is returned and nothing of the
\* rows accumulated before is exposed.
C8_LoadFailureAbortsRun ==
    \A k \in 1..Len(loads) :
        loads[k].read.kind = "raise" =>
            /\ k = Len(loads)
            /\ pc = "done"
            /\ result.kind = "raise"
            /\ result.exc = loads[k].read.exc
            /\ result.exc \in IOErrors
            /\ result.value = <<>>

\* The middle row of three fails after the first gave two rows.
C8_Witness ==
    /\ Failed
    /\ Len(table) = 3
    /\ Len(loads) = 2
    /\ loads[1].read.kind = "return"
    /\ Len(loads[1].read.value) = 2
    /\ loads[2].read.kind = "raise"
    /\ result.exc = loads[2].read.exc

\* C9: every series file is loaded from the first base location of the
\* foreign-key target of the file column, joined with the row's value in the
\* file column.
C9_BasePathLaw ==
    \A k \in 1..Len(loads) :
        loads[k].path = PathJoin(FirstBaseUri, table[loads[k].row + 1].fields[file_index[1] + 1])

C9_Witness ==
    /\ Len(loads) = 2
    /\ Len(metadata[RefSelector].location_base_uris) = 2
    /\ loads[1].path = <<"/", "e", "/", "a">>
    /\ loads[2].path = <<"/", "b">>

\* C10: series files are loaded in main-resource row order, each row once;
\* none before the main resource check, the file column check and the base
\* path resolution have succeeded; none after a load has failed.
C10_LoadsSequentialAfterChecks ==
    /\ \A k \in 1..Len(loads) : loads[k].row = k - 1
    /\ Len(loads) <= Len(table)
    /\ pc \in {"main_resource", "file_column", "base_path", "iterrows"} => loads = <<>>
    /\ loads # <<>> =>
        /\ hp_main # None
        /\ file_index # NoneInt
        /\ IsFileReferenceColumn(hp_main, file_index[1])
        /\ base_path = FirstBaseUri
    /\ (Failed /\ result.exc = ConfigurationError) => loads = <<>>
    /\ (pc = "done" /\ (file_index = NoneInt \/ _get_base_path(metadata, hp_main, file_index[1]).kind = "raise"))
        => loads = <<>>
    /\ \A k \in 1..Len(loads) : k < Len(loads) => loads[k].read.kind = "return"

C10_Witness ==
    /\ pc = "done"
    /\ Len(loads) = 2
    /\ loads[1].row = 0
    /\ loads[2].row = 1
    /\ loads[2].read.kind = "raise"

====
